---- MODULE Spec2Model ----
\* Plagiarism checker of app.py (PART 2): handle_check and check_plagiarism.
\* Strings are sequences of one-character strings, so that the regular
\* expressions, strip(), lower(), the `in` substring test and slicing are
\* computed character by character as Python computes them.
EXTENDS Integers, Sequences, FiniteSets, TLC

\* ------------------------------------------------------------------
\* Bounds of the model
\* ------------------------------------------------------------------
\* number of sentence pieces a generated document is built from
MaxUnits == 2
\* number of candidates one search result carries (the code asks for num=5)
MaxItems == 2

\* ------------------------------------------------------------------
\* Program constants
\* ------------------------------------------------------------------
\* len(sentence) < 15: shorter sentences are skipped
MinSentenceLen == 15
\* len(text) > 5000: longer texts are rejected
MaxTextLen == 5000
\* [:200]: the part of the snippet kept in a record
SnippetMax == 200

\* ------------------------------------------------------------------
\* Characters
\* ------------------------------------------------------------------
\* characters str.strip() removes (those of the model's alphabet)
Whitespace == {" ", "\t", "\n"}

\* the character class [.!?] of the split pattern
Terminals == {".", "!", "?"}

\* the upper-case letters of the model's alphabet and their lower-case forms
UpperSeq == <<"A", "B", "C", "D", "E", "F", "G", "H", "I", "J">>
LowerSeq == <<"a", "b", "c", "d", "e", "f", "g", "h", "i", "j">>

\* characters matched by \w (those of the model's alphabet)
WordChars == {UpperSeq[i] : i \in 1..Len(UpperSeq)} \cup {LowerSeq[i] : i \in 1..Len(LowerSeq)} \cup {"k", "l", "m", "n", "o", "x", "y"}

Alphabet == WordChars \cup Whitespace \cup Terminals \cup {"\""}

\* the lower-case form of each character
ToLower == [c \in Alphabet |-> IF \E i \in 1..Len(UpperSeq) : UpperSeq[i] = c THEN LowerSeq[CHOOSE i \in 1..Len(UpperSeq) : UpperSeq[i] = c] ELSE c]

\* str.lower()
Lower(s) == [i \in 1..Len(s) |-> ToLower[s[i]]]

\* least element of a non-empty set of integers
MinOf(S) == CHOOSE x \in S : \A y \in S : x <= y

\* str.strip(): from the first to the last character that is not whitespace
Strip(s) == IF \A i \in 1..Len(s) : s[i] \in Whitespace THEN <<>> ELSE SubSeq(s, CHOOSE i \in 1..Len(s) : s[i] \notin Whitespace /\ \A j \in 1..(i - 1) : s[j] \in Whitespace, CHOOSE i \in 1..Len(s) : s[i] \notin Whitespace /\ \A j \in (i + 1)..Len(s) : s[j] \in Whitespace)

\* needle in hay (Python's substring test)
Contains(hay, needle) == \E i \in 1..(Len(hay) - Len(needle) + 1) : SubSeq(hay, i, i + Len(needle) - 1) = needle

\* last position of the run of word characters that starts at i
WordEnd(s, i) == CHOOSE j \in i..Len(s) : (j = Len(s) \/ s[j + 1] \notin WordChars) /\ \A k \in i..(j - 1) : s[k + 1] \in WordChars

\* re.findall(r'\w+', s) as a set: the maximal runs of word characters
Words(s) == {SubSeq(s, i, WordEnd(s, i)) : i \in {i \in 1..Len(s) : s[i] \in WordChars /\ (i = 1 \/ s[i - 1] \notin WordChars)}}

\* faulty variant of IsSepChar: the pattern \s+ instead of ' +'
IsSepCharAnyWhitespace(c) == c \in Whitespace

\* the character the split pattern consumes after the lookbehind: ' +'
IsSepChar(c) == c = " "

\* positions where a match of (?<=[.!?]) + starts
SepStarts(t) == {i \in 2..Len(t) : IsSepChar(t[i]) /\ t[i - 1] \in Terminals}

\* last position of the greedy run of separator characters starting at i
RunEnd(t, i) == CHOOSE j \in i..Len(t) : (j = Len(t) \/ ~IsSepChar(t[j + 1])) /\ \A k \in i..(j - 1) : IsSepChar(t[k + 1])

RECURSIVE SplitFrom(_, _)
SplitFrom(t, p) == LET later == {i \in SepStarts(t) : i >= p} IN IF later = {} THEN <<SubSeq(t, p, Len(t))>> ELSE <<SubSeq(t, p, MinOf(later) - 1)>> \o SplitFrom(t, RunEnd(t, MinOf(later)) + 1)

\* re.split(r'(?<=[.!?]) +', text)
Split(t) == SplitFrom(t, 1)

\* jaccard_similarity as the exact fraction <<numerator, denominator>>
Jaccard(set1, set2) == LET intersection == Cardinality(set1 \cap set2) union == Cardinality(set1 \cup set2) IN IF union /= 0 THEN <<intersection, union>> ELSE <<0, 1>>

\* a < b and a <= b on fractions with positive denominators
FracLess(a, b) == a[1] * b[2] < b[1] * a[2]

FracLeq(a, b) == a[1] * b[2] <= b[1] * a[2]

\* the minimum partial-match similarity, 0.3
PartialThreshold == <<3, 10>>

\* ------------------------------------------------------------------
\* Search results
\* ------------------------------------------------------------------
\* one entry of res['items']: a dict that may lack 'link' or 'snippet'
Item(hasLink, link, hasSnippet, snippet) == [has_link |-> hasLink, link |-> link, has_snippet |-> hasSnippet, snippet |-> snippet]

\* item.get('snippet', '')
GetSnippet(item) == IF item.has_snippet THEN item.snippet ELSE <<>>

\* item.get('snippet', '').lower()
SnippetLower(item) == Lower(GetSnippet(item))

\* faulty variant of Accepts: >= in place of >, a tie replaces the best so far
AcceptsTieLater(similarity, best_partial_score) == FracLeq(PartialThreshold, similarity) /\ FracLeq(best_partial_score, similarity)

\* similarity >= 0.3 and similarity > best_partial_score
Accepts(similarity, best_partial_score) == FracLeq(PartialThreshold, similarity) /\ FracLess(best_partial_score, similarity)

\* best_match = None, best_partial_score = 0
NoMatch == [type |-> "none", cand |-> 0, score |-> <<0, 1>>, stop |-> FALSE]

\* faulty variant of ClassifyStep: the break after an exact match is missing
ClassifyStepNoBreak(acc, sentence, items, i) == LET snippet == SnippetLower(items[i]) sentence_lower == Lower(sentence) similarity == Jaccard(Words(sentence_lower), Words(snippet)) IN IF Contains(snippet, sentence_lower) THEN [type |-> "exact", cand |-> i, score |-> acc.score, stop |-> FALSE] ELSE IF Accepts(similarity, acc.score) THEN [type |-> "partial", cand |-> i, score |-> similarity, stop |-> FALSE] ELSE acc

\* one iteration of `for item in res['items']` on the accumulator
\* (best_match, best_partial_score); stop records the break
ClassifyStep(acc, sentence, items, i) == LET snippet == SnippetLower(items[i]) sentence_lower == Lower(sentence) similarity == Jaccard(Words(sentence_lower), Words(snippet)) IN IF Contains(snippet, sentence_lower) THEN [type |-> "exact", cand |-> i, score |-> acc.score, stop |-> TRUE] ELSE IF Accepts(similarity, acc.score) THEN [type |-> "partial", cand |-> i, score |-> similarity, stop |-> FALSE] ELSE acc

RECURSIVE ClassifyLoop(_, _, _, _)
ClassifyLoop(acc, sentence, items, i) == IF i > Len(items) \/ acc.stop THEN acc ELSE ClassifyLoop(ClassifyStep(acc, sentence, items, i), sentence, items, i + 1)

\* the body of `if 'items' in res:` up to `if best_match:`;
\* the result names the chosen candidate by its position in res['items']
Classify(sentence, items) == ClassifyLoop(NoMatch, sentence, items, 1)

\* item.get('snippet', '')[:200] + "..."
TruncSnippet(item) == LET sn == GetSnippet(item) IN SubSeq(sn, 1, IF Len(sn) < SnippetMax THEN Len(sn) ELSE SnippetMax) \o <<".", ".", ".">>

\* the dict appended to matches
MatchRecord(sentence, item, match_type) == [sentence |-> sentence, source |-> item.link, snippet |-> TruncSnippet(item), match_type |-> match_type]

\* faulty variant of AppendRecord: insert(0, ...) in place of append
PrependRecord(ms, rec) == <<rec>> \o ms

\* matches.append(...)
AppendRecord(ms, rec) == Append(ms, rec)

\* if match_type == "exact": exact_chars += char_count
AddExact(chars, match_type, char_count) == IF match_type = "exact" THEN chars + char_count ELSE chars

\* faulty variant of AddPartial: `if` in place of `elif`, counted whatever the type
AddPartialAlways(chars, match_type, char_count) == chars + char_count

\* elif match_type == "partial": partial_chars += char_count
AddPartial(chars, match_type, char_count) == IF match_type = "exact" THEN chars ELSE IF match_type = "partial" THEN chars + char_count ELSE chars

\* stands for "no candidate" where best_match is None
NoItem == Item(FALSE, "", FALSE, <<>>)

\* the try block once execute() has returned res, on the counters and the
\* list it updates. item['link'] on an item without link raises KeyError
\* after the counters were updated and before the append; `except Exception`
\* swallows it
TryBody(sentence, r, exact, partial, ms) ==
    LET best_match == IF r.has_items THEN Classify(sentence, r.items) ELSE NoMatch
        match_type == best_match.type
        item == IF match_type /= "none" THEN r.items[best_match.cand] ELSE NoItem
        char_count == Len(sentence)
    IN  [best_match |-> best_match,
         item |-> item,
         exact_chars |-> IF match_type /= "none" THEN AddExact(exact, match_type, char_count) ELSE exact,
         partial_chars |-> IF match_type /= "none" THEN AddPartial(partial, match_type, char_count) ELSE partial,
         matches |-> IF match_type /= "none" /\ item.has_link THEN AppendRecord(ms, MatchRecord(sentence, item, match_type)) ELSE ms]

\* q=f'"{sentence}"'
Query(sentence) == <<"\"">> \o sentence \o <<"\"">>

\* faulty variant of TooShort: the threshold one lower
TooShort14(sentence) == Len(sentence) < 14

\* len(sentence) < 15
TooShort(sentence) == Len(sentence) < MinSentenceLen

\* faulty variant of TooLong: >= in place of >
TooLongAt5000(t) == Len(t) >= MaxTextLen

\* len(text) > 5000
TooLong(t) == Len(t) > MaxTextLen

\* round(chars / total_chars * 100) if total_chars > 0 else 0, as the set of
\* values the floating-point computation can give: off a tie the nearest
\* integer; on a tie (x.5) the binary quotient times 100 may land on either
\* side of the half (23/40*100 = 57.49999999999999, 109/200*100 =
\* 54.50000000000001), so both neighbours are possible outcomes
RoundPercent(chars, total_chars) == IF total_chars > 0 THEN LET q == (100 * chars) \div total_chars r == (100 * chars) % total_chars IN IF 2 * r < total_chars THEN {q} ELSE IF 2 * r > total_chars THEN {q + 1} ELSE {q, q + 1} ELSE {0}

\* ------------------------------------------------------------------
\* Inputs: documents, request bodies, search results
\* ------------------------------------------------------------------
\* "Ab cd ef gh ij."  (15 characters)
S15 == <<"A", "b", " ", "c", "d", " ", "e", "f", " ", "g", "h", " ", "i", "j", ".">>

\* "ab cd ef gh i!"  (14 characters)
S14 == <<"a", "b", " ", "c", "d", " ", "e", "f", " ", "g", "h", " ", "i", "!">>

\* "Ab Cd Ef Gh Ij?"  (15 characters), a sentence for the classifier alone
SU == <<"A", "b", " ", "C", "d", " ", "E", "f", " ", "G", "h", " ", "I", "j", "?">>

Pieces == {S15, S14}

\* what stands between two pieces: one space, a newline, two spaces and a tab
Separators == {<<" ">>, <<"\n">>, <<" ", " ", "\t">>}

RECURSIVE DocsOf(_)
DocsOf(n) == IF n = 0 THEN {<<>>} ELSE IF n = 1 THEN Pieces ELSE {d \o sep \o p : d \in DocsOf(n - 1), sep \in Separators, p \in Pieces}

\* S15, then spaces, then S15 again: n characters in all
LongText(n) == S15 \o [i \in 1..(n - 2 * Len(S15)) |-> " "] \o S15

Texts == UNION {DocsOf(n) : n \in 0..MaxUnits} \cup {LongText(MaxTextLen), LongText(MaxTextLen + 1)}

\* request.get_json(): None, or a dict with the keys `keys`
Body(isNone, keys, t) == [is_none |-> isNone, keys |-> keys, text |-> t]

Requests == {Body(TRUE, {}, <<>>), Body(FALSE, {}, <<>>), Body(FALSE, {"other"}, <<>>)} \cup {Body(FALSE, {"text"}, t) : t \in Texts}

\* "x AB CD EF GH IJ. y": contains S15 up to case; similarity 5/7
SnExact == <<"x", " ", "A", "B", " ", "C", "D", " ", "E", "F", " ", "G", "H", " ", "I", "J", ".", " ", "y">>

\* "ij gh ef cd ab": the words of S15 in another order; similarity 1
SnHigh == <<"i", "j", " ", "g", "h", " ", "e", "f", " ", "c", "d", " ", "a", "b">>

\* "ab cd ef k l m n o": similarity 3/10
SnThresh == <<"a", "b", " ", "c", "d", " ", "e", "f", " ", "k", " ", "l", " ", "m", " ", "n", " ", "o">>

\* "cd ef gh k l m n o": similarity 3/10
SnThresh2 == <<"c", "d", " ", "e", "f", " ", "g", "h", " ", "k", " ", "l", " ", "m", " ", "n", " ", "o">>

\* "ab cd k l": similarity 2/7
SnBelow == <<"a", "b", " ", "c", "d", " ", "k", " ", "l">>

Items == {Item(TRUE, "L1", TRUE, SnExact), Item(FALSE, "", TRUE, SnExact), Item(TRUE, "L2", TRUE, SnHigh), Item(TRUE, "L3", TRUE, SnThresh), Item(TRUE, "L4", TRUE, SnThresh2), Item(TRUE, "L5", TRUE, SnBelow), Item(TRUE, "L6", FALSE, <<>>)}

ItemLists == UNION {[1..n -> Items] : n \in 0..MaxItems}

\* the dict execute() returns, with or without the key 'items'
Result(hasItems, items) == [has_items |-> hasItems, items |-> items]

Results == {Result(FALSE, <<>>)} \cup {Result(TRUE, l) : l \in ItemLists}

\* ------------------------------------------------------------------
\* State
\* ------------------------------------------------------------------
\* handle_check / check_plagiarism: pc is the position in the request,
\* verdicts the value of best_match of every iteration of the sentence loop,
\* queries the q= arguments sent to the search service so far.
\* cl_*: the classifier applied to one sentence and one result on its own.
VARIABLES pc, data, text, sentences, idx, total_chars, exact_chars, partial_chars, matches, queries, verdicts, response, cl_sentence, cl_res, cl_best, cl_done

req_vars == <<pc, data, text, sentences, idx, total_chars, exact_chars, partial_chars, matches, queries, verdicts, response>>

cl_vars == <<cl_sentence, cl_res, cl_best, cl_done>>

vars == <<req_vars, cl_vars>>

\* the JSON response and its status code
Response(status, error, ms, ep, pp, tp) == [status |-> status, error |-> error, matches |-> ms, exact_percent |-> ep, partial_percent |-> pp, total_percent |-> tp]

\* what one iteration of `for sentence in sentences` did: the outcome of
\* the search call and the value of best_match = (type, item)
Verdict(outcome, type, item) == [outcome |-> outcome, type |-> type, item |-> item]

\* the classifier is not run on its own
ClassifierIdle == cl_sentence = <<>> /\ cl_res = Result(FALSE, <<>>) /\ cl_best = NoMatch /\ cl_done = FALSE

Init ==
    /\ pc = "handle_check"
    /\ data \in Requests
    /\ text = <<>>
    /\ sentences = <<>>
    /\ idx = 1
    /\ total_chars = 0
    /\ exact_chars = 0
    /\ partial_chars = 0
    /\ matches = <<>>
    /\ queries = <<>>
    /\ verdicts = <<>>
    /\ response = Response(0, "", <<>>, 0, 0, 0)
    /\ ClassifierIdle

\* not data or 'text' not in data
NoText(d) == d.is_none \/ d.keys = {} \/ "text" \notin d.keys

\* if not data or 'text' not in data: return 400
RejectNoText ==
    /\ pc = "handle_check"
    /\ NoText(data)
    /\ response' = Response(400, "No text provided", <<>>, 0, 0, 0)
    /\ pc' = "done"
    /\ UNCHANGED <<cl_vars, data, text, sentences, idx, total_chars, exact_chars, partial_chars, matches, queries, verdicts>>

\* if len(text) > 5000: return 400
RejectTooLong ==
    /\ pc = "handle_check"
    /\ ~NoText(data)
    /\ TooLong(data.text)
    /\ text' = data.text
    /\ response' = Response(400, "Text exceeds 5000 characters", <<>>, 0, 0, 0)
    /\ pc' = "done"
    /\ UNCHANGED <<cl_vars, data, sentences, idx, total_chars, exact_chars, partial_chars, matches, queries, verdicts>>

\* check_plagiarism(text) up to the loop: split, build the client, zero the counters
StartCheck ==
    /\ pc = "handle_check"
    /\ ~NoText(data)
    /\ ~TooLong(data.text)
    /\ text' = data.text
    /\ sentences' = Split(data.text)
    /\ total_chars' = Len(data.text)
    /\ exact_chars' = 0
    /\ partial_chars' = 0
    /\ matches' = <<>>
    /\ idx' = 1
    /\ pc' = "loop"
    /\ UNCHANGED <<cl_vars, data, queries, verdicts, response>>

\* build(...) raises (outside the try of check_plagiarism): handle_check answers 500
BuildRaises ==
    /\ pc = "handle_check"
    /\ ~NoText(data)
    /\ ~TooLong(data.text)
    /\ text' = data.text
    /\ sentences' = Split(data.text)
    /\ response' = Response(500, "build", <<>>, 0, 0, 0)
    /\ pc' = "done"
    /\ UNCHANGED <<cl_vars, data, idx, total_chars, exact_chars, partial_chars, matches, queries, verdicts>>

\* the loop is at a sentence that passes the length test
AtSentence == pc = "loop" /\ idx <= Len(sentences) /\ ~TooShort(Strip(sentences[idx]))

\* sentence = sentence.strip(); if len(sentence) < 15: continue
SkipShort ==
    /\ pc = "loop"
    /\ idx <= Len(sentences)
    /\ TooShort(Strip(sentences[idx]))
    /\ verdicts' = Append(verdicts, Verdict("skipped", "none", NoItem))
    /\ idx' = idx + 1
    /\ UNCHANGED <<cl_vars, pc, data, text, sentences, total_chars, exact_chars, partial_chars, matches, queries, response>>

\* faulty variant of SearchRaises: the exception leaves the loop and
\* handle_check answers 500
SearchRaisesAbort ==
    /\ AtSentence
    /\ \E e \in {"HttpError", "Exception"} : verdicts' = Append(verdicts, Verdict(e, "none", NoItem))
    /\ queries' = Append(queries, Query(Strip(sentences[idx])))
    /\ response' = Response(500, "search", <<>>, 0, 0, 0)
    /\ pc' = "done"
    /\ UNCHANGED <<cl_vars, idx, data, text, sentences, total_chars, exact_chars, partial_chars, matches>>

\* execute() raises HttpError or another Exception: printed, next sentence
SearchRaises ==
    /\ AtSentence
    /\ \E e \in {"HttpError", "Exception"} : verdicts' = Append(verdicts, Verdict(e, "none", NoItem))
    /\ queries' = Append(queries, Query(Strip(sentences[idx])))
    /\ idx' = idx + 1
    /\ UNCHANGED <<cl_vars, pc, data, text, sentences, total_chars, exact_chars, partial_chars, matches, response>>

\* execute() never returns: the call carries no timeout
SearchBlocks ==
    /\ AtSentence
    /\ queries' = Append(queries, Query(Strip(sentences[idx])))
    /\ pc' = "blocked"
    /\ UNCHANGED <<cl_vars, data, text, sentences, idx, total_chars, exact_chars, partial_chars, matches, verdicts, response>>

\* execute() returns r and the rest of the try block runs
SearchReturns ==
    /\ AtSentence
    /\ \E r \in Results, sentence \in {Strip(sentences[idx])} :
        \E out \in {TryBody(sentence, r, exact_chars, partial_chars, matches)} :
            /\ queries' = Append(queries, Query(sentence))
            /\ verdicts' = Append(verdicts, Verdict("ok", out.best_match.type, out.item))
            /\ exact_chars' = out.exact_chars
            /\ partial_chars' = out.partial_chars
            /\ matches' = out.matches
    /\ idx' = idx + 1
    /\ UNCHANGED <<cl_vars, pc, data, text, sentences, total_chars, response>>

\* the percentages and the returned dict; jsonify(result)
Finish ==
    /\ pc = "loop"
    /\ idx > Len(sentences)
    /\ \E exact_percent \in RoundPercent(exact_chars, total_chars), partial_percent \in RoundPercent(partial_chars, total_chars) :
        response' = Response(200, "", matches, exact_percent, partial_percent, exact_percent + partial_percent)
    /\ pc' = "done"
    /\ UNCHANGED <<cl_vars, data, text, sentences, idx, total_chars, exact_chars, partial_chars, matches, queries, verdicts>>

Next == \/ RejectNoText \/ RejectTooLong \/ StartCheck \/ BuildRaises \/ SkipShort \/ SearchRaises \/ SearchBlocks \/ SearchReturns \/ Finish

Spec == Init /\ [][Next]_vars

\* the server keeps running the request: every enabled step is eventually taken
FairSpec == Spec /\ WF_vars(Next)

\* ------------------------------------------------------------------
\* The classifier on its own: one sentence, one search result
\* ------------------------------------------------------------------
ClassifierSentences == {S15, SU, S15 \o <<"\n">> \o SU}

ClassifierInit ==
    /\ pc = "classify"
    /\ data = Body(TRUE, {}, <<>>)
    /\ text = <<>>
    /\ sentences = <<>>
    /\ idx = 1
    /\ total_chars = 0
    /\ exact_chars = 0
    /\ partial_chars = 0
    /\ matches = <<>>
    /\ queries = <<>>
    /\ verdicts = <<>>
    /\ response = Response(0, "", <<>>, 0, 0, 0)
    /\ cl_sentence \in ClassifierSentences
    /\ cl_res \in Results
    /\ cl_best = NoMatch
    /\ cl_done = FALSE

\* one run of the try block after execute() returned cl_res for cl_sentence,
\* from zeroed counters and an empty list
ClassifyResult ==
    /\ pc = "classify"
    /\ ~cl_done
    /\ \E out \in {TryBody(cl_sentence, cl_res, exact_chars, partial_chars, matches)} :
        /\ cl_best' = out.best_match
        /\ exact_chars' = out.exact_chars
        /\ partial_chars' = out.partial_chars
        /\ matches' = out.matches
    /\ cl_done' = TRUE
    /\ UNCHANGED <<pc, data, text, sentences, idx, total_chars, queries, verdicts, response, cl_sentence, cl_res>>

ClassifierNext == ClassifyResult

ClassifierSpec == ClassifierInit /\ [][ClassifierNext]_vars

TypeOK == pc \in {"handle_check", "loop", "blocked", "done", "classify"}

\* ------------------------------------------------------------------
\* Properties
\* ------------------------------------------------------------------
\* the candidate's lower-cased snippet contains the lower-cased sentence
IsExactCand(sentence, item) == Contains(Lower(GetSnippet(item)), Lower(sentence))

\* Jaccard similarity of the word sets of sentence and candidate snippet
Sim(sentence, item) == Jaccard(Words(Lower(sentence)), Words(Lower(GetSnippet(item))))

\* positions of the exact candidates of the classified result
ExactCands == {i \in 1..Len(cl_res.items) : IsExactCand(cl_sentence, cl_res.items[i])}

\* positions of the candidates no other candidate beats
TopCands == {i \in 1..Len(cl_res.items) : \A j \in 1..Len(cl_res.items) : FracLeq(Sim(cl_sentence, cl_res.items[j]), Sim(cl_sentence, cl_res.items[i]))}

\* C2: if some candidate's lower-cased snippet contains the lower-cased
\* sentence, the verdict is exact with the first such candidate in returned
\* order, whatever the similarity of the other candidates; the sentence is
\* counted as exact and, when that candidate has a link, the record names it
C2_ExactShortCircuit ==
    (cl_done /\ cl_res.has_items /\ ExactCands /= {}) =>
        /\ cl_best.type = "exact"
        /\ cl_best.cand = MinOf(ExactCands)
        /\ exact_chars = Len(cl_sentence)
        /\ partial_chars = 0
        /\ cl_res.items[MinOf(ExactCands)].has_link =>
            /\ Len(matches) = 1
            /\ matches[1].match_type = "exact"
            /\ matches[1].source = cl_res.items[MinOf(ExactCands)].link

\* C2 witness: the first candidate is not exact and has similarity 1, the
\* second is exact, and the verdict is exact with the second
C2_Witness ==
    /\ cl_done
    /\ Len(cl_res.items) = 2
    /\ ~IsExactCand(cl_sentence, cl_res.items[1])
    /\ Sim(cl_sentence, cl_res.items[1]) = <<5, 5>>
    /\ IsExactCand(cl_sentence, cl_res.items[2])
    /\ cl_best.type = "exact"
    /\ cl_best.cand = 2

\* C3: with no exact candidate, the verdict is partial with the earliest
\* candidate attaining the maximum similarity when that maximum is >= 0.3
\* (3/10 itself qualifies, a tie keeps the earlier candidate); otherwise the
\* verdict is none, nothing is counted and no record is produced
C3_BestPartial ==
    (cl_done /\ ExactCands = {}) =>
        IF cl_res.has_items /\ cl_res.items /= <<>> /\ FracLeq(<<3, 10>>, Sim(cl_sentence, cl_res.items[MinOf(TopCands)]))
        THEN /\ cl_best.type = "partial"
             /\ cl_best.cand = MinOf(TopCands)
             /\ partial_chars = Len(cl_sentence)
             /\ exact_chars = 0
        ELSE /\ cl_best.type = "none"
             /\ matches = <<>>
             /\ exact_chars = 0
             /\ partial_chars = 0

\* C3 witness: two different candidates tie at exactly 3/10 and the first wins
C3_Witness ==
    /\ cl_done
    /\ Len(cl_res.items) = 2
    /\ cl_res.items[1] /= cl_res.items[2]
    /\ Sim(cl_sentence, cl_res.items[1]) = <<3, 10>>
    /\ Sim(cl_sentence, cl_res.items[2]) = <<3, 10>>
    /\ cl_best.type = "partial"
    /\ cl_best.cand = 1
    /\ Len(matches) = 1

\* the search call of iteration k raised
Raised(k) == verdicts[k].outcome \in {"HttpError", "Exception"}

\* iteration k skipped its sentence without a search call
Skipped(k) == verdicts[k].outcome = "skipped"

\* the request was answered with a score
Scored == pc = "done" /\ response.status = 200

\* C1: a search call that raises adds no record and no characters and the
\* loop goes on with the next sentence; the scoring then ends with a result
\* in which every sentence had its iteration and every sentence that was not
\* skipped its query, and when every call raised the result has empty
\* matches and 0 for the three percentages
C1_RaiseIsLocal ==
    [][/\ (pc = "loop" /\ Len(verdicts') = Len(verdicts) + 1 /\ verdicts'[Len(verdicts')].outcome \in {"HttpError", "Exception"}) =>
            /\ matches' = matches
            /\ exact_chars' = exact_chars
            /\ partial_chars' = partial_chars
            /\ pc' = "loop"
            /\ idx' = idx + 1
       /\ (pc = "loop" /\ pc' = "done") =>
            /\ response'.status = 200
            /\ Len(verdicts) = Len(sentences)
            /\ Len(queries) = Cardinality({k \in 1..Len(verdicts) : ~Skipped(k)})
            /\ (\A k \in 1..Len(verdicts) : Skipped(k) \/ Raised(k)) =>
                /\ response'.matches = <<>>
                /\ response'.exact_percent = 0
                /\ response'.partial_percent = 0
                /\ response'.total_percent = 0]_vars

\* C1 witness: the call for the first sentence raised, the second sentence
\* was still queried and matched, and the result was returned
C1_Witness ==
    /\ Scored
    /\ Len(verdicts) = 2
    /\ Raised(1)
    /\ verdicts[2].outcome = "ok"
    /\ verdicts[2].type /= "none"
    /\ Len(queries) = 2
    /\ Len(response.matches) = 1

\* C4 as claimed: a unit is queried iff its trimmed length is at least 14
C4_QueriedFrom14 == \A k \in 1..Len(verdicts) : Skipped(k) <=> Len(Strip(sentences[k])) < 14

RECURSIVE SumLenFrom15(_)
\* total trimmed length of the first k pieces that are at least 15 long
SumLenFrom15(k) == IF k = 0 THEN 0 ELSE SumLenFrom15(k - 1) + (IF Len(Strip(sentences[k])) >= 15 THEN Len(Strip(sentences[k])) ELSE 0)

\* C4 as amended: a unit is queried and scored iff its trimmed length is at
\* least 15; shorter units get no search call, no record and no characters
C4_QueriedFrom15 ==
    /\ \A k \in 1..Len(verdicts) : Skipped(k) <=> Len(Strip(sentences[k])) < 15
    /\ \A q \in 1..Len(queries) : Len(queries[q]) >= 15 + 2
    /\ Len(queries) \in {Cardinality({k \in 1..Len(verdicts) : Len(Strip(sentences[k])) >= 15}), Cardinality({k \in 1..Len(verdicts) : Len(Strip(sentences[k])) >= 15}) + 1}
    /\ \A m \in 1..Len(matches) : Len(matches[m].sentence) >= 15
    /\ exact_chars + partial_chars <= SumLenFrom15(Len(verdicts))

\* C4 witness: a piece of 15 characters whose trimmed length is 14 was
\* skipped, and a unit of trimmed length exactly 15 was queried and matched
C4_Witness ==
    /\ Scored
    /\ \E k \in 1..Len(verdicts) : Len(sentences[k]) = 15 /\ Len(Strip(sentences[k])) = 14 /\ Skipped(k)
    /\ \E k \in 1..Len(verdicts) : Len(Strip(sentences[k])) = 15 /\ verdicts[k].type /= "none"
    /\ Len(queries) = 1
    /\ Len(matches) = 1

\* C5: the percentages of a result are integers in 0..100 (0 for the empty
\* text), total_percent is their sum and is at most 100, the counted
\* characters being at most those of the text
C5_PercentRange ==
    Scored =>
        /\ response.exact_percent \in 0..100
        /\ response.partial_percent \in 0..100
        /\ response.total_percent = response.exact_percent + response.partial_percent
        /\ response.total_percent <= 100
        /\ exact_chars + partial_chars <= Len(text)
        /\ Len(text) = 0 => (response.exact_percent = 0 /\ response.partial_percent = 0)

\* C5 witness: a result with an exact and a partial sentence
C5_Witness ==
    /\ Scored
    /\ response.exact_percent > 0
    /\ response.partial_percent > 0
    /\ response.total_percent >= 90

\* C6: a body without text field, or a text longer than 5000 characters, is
\* answered 400 with no search query and no scoring; a text of at most 5000
\* characters is never answered 400, and only such a text is ever scored
C6_Validation ==
    /\ (pc = "done" /\ (data.is_none \/ "text" \notin data.keys \/ Len(data.text) > 5000)) =>
        /\ response.status = 400
        /\ queries = <<>>
        /\ verdicts = <<>>
        /\ sentences = <<>>
        /\ matches = <<>>
    /\ (pc = "done" /\ ~data.is_none /\ "text" \in data.keys /\ Len(data.text) <= 5000) => response.status /= 400
    /\ pc \in {"loop", "blocked"} => (~data.is_none /\ "text" \in data.keys /\ Len(data.text) <= 5000)

\* C6 witness: a text of exactly 5000 characters was scored, with a match
C6_Witness ==
    /\ Scored
    /\ Len(data.text) = 5000
    /\ Len(queries) = 2
    /\ Len(response.matches) >= 1

\* C7: the records of matches are those of distinct sentences whose verdict
\* is exact or partial, in the order of the sentences: an increasing map
\* sends every record to the iteration that produced it
C7_MatchesInSentenceOrder ==
    /\ \E f \in [1..Len(matches) -> 1..Len(verdicts)] :
        /\ \A i \in 1..Len(matches) : \A j \in 1..Len(matches) : i < j => f[i] < f[j]
        /\ \A i \in 1..Len(matches) :
            /\ verdicts[f[i]].type \in {"exact", "partial"}
            /\ matches[i].match_type = verdicts[f[i]].type
            /\ matches[i].sentence = Strip(sentences[f[i]])
            /\ matches[i].source = verdicts[f[i]].item.link
    /\ Scored => response.matches = matches

\* C7 witness: a returned result with the records of two sentences, of
\* different match types and sources
C7_Witness ==
    /\ Scored
    /\ Len(response.matches) = 2
    /\ response.matches[1].source /= response.matches[2].source
    /\ response.matches[1].match_type /= response.matches[2].match_type

\* C8: every scoring request completes
C8_AlwaysCompletes == <>(pc = "done")

\* C9 as claimed: no unit keeps a '.', '!' or '?' followed by whitespace of
\* any kind inside it
C9_SplitOnAnyWhitespace == \A k \in 1..Len(sentences) : \A i \in 1..(Len(Strip(sentences[k])) - 1) : ~(Strip(sentences[k])[i] \in Terminals /\ Strip(sentences[k])[i + 1] \in Whitespace)

RECURSIVE SumLen(_, _)
\* total length of the first k elements of a sequence of strings
SumLen(ss, k) == IF k = 0 THEN 0 ELSE SumLen(ss, k - 1) + Len(ss[k])

\* C9 as amended: the text is split exactly at the runs of spaces that
\* follow a '.', '!' or '?': one more piece than such runs, every piece but
\* the last ends with the punctuation, no piece keeps punctuation followed
\* by a space or starts with a space of the run, every piece is a substring
\* of the text; punctuation followed by a tab or a newline does not split
C9_SplitOnSpaces ==
    sentences /= <<>> =>
        /\ Len(sentences) = 1 + Cardinality({i \in 2..Len(text) : text[i] = " " /\ text[i - 1] \in Terminals})
        /\ \A k \in 1..(Len(sentences) - 1) : sentences[k] /= <<>> /\ sentences[k][Len(sentences[k])] \in Terminals
        /\ \A k \in 1..Len(sentences) : \A i \in 1..(Len(sentences[k]) - 1) : ~(sentences[k][i] \in Terminals /\ sentences[k][i + 1] = " ")
        /\ \A k \in 2..Len(sentences) : sentences[k] = <<>> \/ sentences[k][1] /= " "
        /\ \A k \in 1..Len(sentences) : Contains(text, sentences[k])
        /\ SumLen(sentences, Len(sentences)) + (Len(sentences) - 1) <= Len(text)

\* C9 witness: two sentences separated only by a newline are one unit,
\* sent as one query
C9_Witness ==
    /\ Scored
    /\ Len(sentences) = 1
    /\ \E i \in 1..(Len(text) - 1) : text[i] \in Terminals /\ text[i + 1] = "\n"
    /\ Len(queries) = 1
    /\ Len(queries[1]) = Len(text) + 2

RECURSIVE SumOfType(_, _)
\* total sentence length of the first k records of matches with type ty
SumOfType(ty, k) == IF k = 0 THEN 0 ELSE SumOfType(ty, k - 1) + (IF matches[k].match_type = ty THEN Len(matches[k].sentence) ELSE 0)

\* C10: in a returned result the exact and partial character counts are
\* the sums over the records of matches of the same type
C10_CountersMatchRecords ==
    Scored =>
        /\ exact_chars = SumOfType("exact", Len(matches))
        /\ partial_chars = SumOfType("partial", Len(matches))

====
